---- MODULE Spec2Model ----
(***************************************************************************)
(* Model of jax-dataloader's core (nbs/core.ipynb): the global Config, the *)
(* PRNGSequence key stream, ArrayDataset and the DataLoaderJax iterator.   *)
(*                                                                         *)
(* Two instances of every object are driven by the same calls, one after   *)
(* the other inside each step, so that reproducibility (same seed, same    *)
(* calls => same results) is a property of the reachable states.           *)
(*                                                                         *)
(* jax.random is an external library.  A key is modelled by its derivation *)
(* path <<seed, num_1, i_1, num_2, i_2, ...>>: split(key, num)[i] extends   *)
(* the path by <<num, i>>.  jax.random.permutation(key, x) is an unknown    *)
(* function of the key: the permutation is chosen freely, and two draws     *)
(* made with the same key in one step get the same permutation.            *)
(***************************************************************************)
EXTENDS Integers, Sequences, FiniteSets, TLC

VARIABLES cfg, dataset, ld, deques, ret, cur, last, epochs, steps, lenRet,
          seqs, outs, ncalls, buffers, kwargs, drawn, env, disp, op

vars == <<cfg, dataset, ld, deques, ret, cur, last, epochs, steps, lenRet,
          seqs, outs, ncalls, buffers, kwargs, drawn, env, disp, op>>

(* op is the last call made on the loaders ("init", "next", "len", "iter"  *)
(* or "none"); cur, last, epochs, steps and drawn record what loader 1     *)
(* returned and drew; disp records the last dispatch call.                 *)

(* ------------------------------ bounds -------------------------------- *)
MaxN == 3
MaxB == 4
MaxEpochs == 2
MaxReserve == 2
MaxCalls == 4
MaxNSeed == 2

(* Config.default() *)
Config_default == [rng_reserve_size |-> 1, global_seed |-> 42]

Seeds == {Config_default.global_seed, Config_default.global_seed + 1}
ReserveSizes == 0..MaxReserve
BatchSizes == (0 - 1)..MaxB
Ids == {1, 2}
MaxSteps == MaxN + 2

(* ------------------------------ helpers ------------------------------- *)
Min(a, b) == IF a < b THEN a ELSE b
Max(a, b) == IF a > b THEN a ELSE b

(* Python's a // b (floor division), b # 0 *)
PyFloorDiv(a, b) ==
  LET q(x, y) == IF x >= 0 THEN x \div y ELSE 0 - (((0 - x) + y - 1) \div y)
  IN IF b > 0 THEN q(a, b) ELSE q(0 - a, 0 - b)

(* s[start:stop] starting one element early *)
PySlice_early(s, start, stop) ==
  LET n == Len(s)
      norm(i) == IF i < 0 THEN Max(i + n, 0) ELSE Min(i, n)
      lo == Max(norm(start) - 1, 0)
      hi == norm(stop)
  IN IF hi <= lo THEN <<>> ELSE [i \in 1..(hi - lo) |-> s[lo + i]]

(* Python's s[start:stop] on a sequence (0-based, negative indices wrap,   *)
(* out-of-range bounds are clipped)                                        *)
PySlice(s, start, stop) ==
  LET n == Len(s)
      norm(i) == IF i < 0 THEN Max(i + n, 0) ELSE Min(i, n)
      lo == norm(start)
      hi == norm(stop)
  IN IF hi <= lo THEN <<>> ELSE [i \in 1..(hi - lo) |-> s[lo + i]]

(* Python's s[start:] *)
PySliceFrom(s, start) == PySlice(s, start, Len(s))

(* jnp.arange(n) *)
arange(n) == [i \in 1..n |-> i - 1]

(* the permutations of the positions 1..n *)
Perms(n) == {p \in [1..n -> 1..n] : \A i, j \in 1..n : p[i] = p[j] => i = j}

(* a reordering that repeats one element of x at every position *)
permutation_first(sigma, x) == [i \in 1..Len(x) |-> x[sigma[1]]]

(* jax.random.permutation(key, x), sigma being the permutation the key     *)
(* stands for: x reordered, nothing added or lost                          *)
permutation(sigma, x) == [i \in 1..Len(x) |-> x[sigma[i]]]

RECURSIVE Concat(_)
Concat(ss) == IF ss = <<>> THEN <<>> ELSE Head(ss) \o Concat(Tail(ss))

(* --------------------------- PRNGSequence ----------------------------- *)
NoKey == <<>>

(* jax.random.PRNGKey(seed) *)
PRNGKey(seed) == <<seed>>

(* jax.random.split(key, num): num keys derived from key *)
split(key, num) == [i \in 1..num |-> key \o <<num, i - 1>>]

(* the deque object a PRNGSequence instance allocates in __init__ *)
NewDequeShared(id) == 1
NewDeque(id) == id

(* PRNGSequence.__init__(seed): the instance and the heap of deques *)
PRNGSequence_init(id, seed, dq) ==
  [ks |-> [key |-> PRNGKey(seed), subkeys |-> NewDeque(id)],
   dq |-> [dq EXCEPT ![NewDeque(id)] = <<>>]]

(* reserve(num) that splits off the subkeys and keeps the old root key *)
reserve_keeproot(ks, dq, num) ==
  IF num > 0
  THEN LET new_keys == split(ks.key, num + 1)
       IN [ks |-> ks,
           dq |-> [dq EXCEPT ![ks.subkeys] = @ \o Tail(new_keys)]]
  ELSE [ks |-> ks, dq |-> dq]

(* reserve(num) that also enqueues the descendant it keeps as root *)
reserve_rootqueued(ks, dq, num) ==
  IF num > 0
  THEN LET new_keys == split(ks.key, num + 1)
       IN [ks |-> [ks EXCEPT !.key = new_keys[1]],
           dq |-> [dq EXCEPT ![ks.subkeys] = @ \o new_keys]]
  ELSE [ks |-> ks, dq |-> dq]

(* PRNGSequence.reserve(num) *)
reserve(ks, dq, num) ==
  IF num > 0
  THEN LET new_keys == split(ks.key, num + 1)
       IN [ks |-> [ks EXCEPT !.key = new_keys[1]],
           dq |-> [dq EXCEPT ![ks.subkeys] = @ \o Tail(new_keys)]]
  ELSE [ks |-> ks, dq |-> dq]

(* __next__ taking the newest subkey: pop() instead of popleft() *)
PRNGSequence_next_pop(ks, dq) ==
  LET r == IF dq[ks.subkeys] = <<>>
           THEN reserve(ks, dq, cfg.rng_reserve_size)
           ELSE [ks |-> ks, dq |-> dq]
      q == r.dq[ks.subkeys]
  IN IF q = <<>>
     THEN [ks |-> r.ks, dq |-> r.dq, out |-> NoKey, raised |-> "IndexError"]
     ELSE [ks |-> r.ks,
           dq |-> [r.dq EXCEPT ![ks.subkeys] = SubSeq(q, 1, Len(q) - 1)],
           out |-> q[Len(q)], raised |-> "none"]

(* PRNGSequence.__next__(): popleft() of an empty deque raises IndexError *)
PRNGSequence_next(ks, dq) ==
  LET r == IF dq[ks.subkeys] = <<>>
           THEN reserve(ks, dq, cfg.rng_reserve_size)
           ELSE [ks |-> ks, dq |-> dq]
      q == r.dq[ks.subkeys]
  IN IF q = <<>>
     THEN [ks |-> r.ks, dq |-> r.dq, out |-> NoKey, raised |-> "IndexError"]
     ELSE [ks |-> r.ks, dq |-> [r.dq EXCEPT ![ks.subkeys] = Tail(q)],
           out |-> Head(q), raised |-> "none"]

(* ---------------------------- ArrayDataset ---------------------------- *)
(* the buffers test_dataloader builds: feats rows repeat the sample number *)
(* (two columns kept of the ten), labels have shape (samples, 1)           *)
TestArrays(samples) ==
  << [i \in 1..samples |-> <<i - 1, i - 1>>],
     [i \in 1..samples |-> <<i - 1>>] >>

(* ArrayDataset.__init__ accepting buffers shorter than the first one *)
ArrayDataset_init_atmost(arrays) ==
  IF \A j \in 1..Len(arrays) : Len(arrays[1]) >= Len(arrays[j])
  THEN [state |-> "ok", arrays |-> arrays]
  ELSE [state |-> "AssertionError", arrays |-> <<>>]

(* ArrayDataset.__init__(arrays): the assert on the first-axis sizes; a    *)
(* failed assert leaves no dataset                                         *)
ArrayDataset_init(arrays) ==
  IF \A j \in 1..Len(arrays) : Len(arrays[1]) = Len(arrays[j])
  THEN [state |-> "ok", arrays |-> arrays]
  ELSE [state |-> "AssertionError", arrays |-> <<>>]

(* ArrayDataset.__len__ *)
ArrayDataset_len(ds) == Len(ds.arrays[1])

(* __getitem__ gathering the buffers after the first in reverse order *)
ArrayDataset_getitem_misaligned(ds, index) ==
  [j \in 1..Len(ds.arrays) |->
     [i \in 1..Len(index) |->
        ds.arrays[j][index[IF j = 1 THEN i ELSE Len(index) + 1 - i] + 1]]]

(* ArrayDataset.__getitem__(index) for an index array: every buffer is     *)
(* gathered along its first axis                                           *)
ArrayDataset_getitem(ds, index) ==
  [j \in 1..Len(ds.arrays) |->
     [i \in 1..Len(index) |-> ds.arrays[j][index[i] + 1]]]

(* --------------------------- DataLoaderJax ---------------------------- *)
NoBatch == [kind |-> "none", indices |-> <<>>, data |-> <<>>]

Unbuilt ==
  [state |-> "none", data_len |-> 0, batch_size |-> 0, shuffle |-> FALSE,
   drop_last |-> FALSE, keys |-> [key |-> NoKey, subkeys |-> 0],
   indices |-> <<>>, pose |-> 0]

(* _shuffle drawing with replacement: the last draw repeats the first *)
DataLoaderJax_shuffle_resample(self, dq, sigma) ==
  IF self.shuffle
  THEN LET r == PRNGSequence_next(self.keys, dq)
       IN IF r.raised # "none"
          THEN [self |-> [self EXCEPT !.keys = r.ks], dq |-> r.dq,
                key |-> NoKey, raised |-> r.raised]
          ELSE [self |-> [self EXCEPT !.keys = r.ks,
                                      !.indices =
                                         [i \in 1..Len(@) |->
                                            @[sigma[IF i = Len(@) THEN 1 ELSE i]]]],
                dq |-> r.dq, key |-> r.out, raised |-> "none"]
  ELSE [self |-> self, dq |-> dq, key |-> NoKey, raised |-> "none"]

(* _shuffle that does not look at self.shuffle *)
DataLoaderJax_shuffle_always(self, dq, sigma) ==
  LET r == PRNGSequence_next(self.keys, dq)
  IN IF r.raised # "none"
     THEN [self |-> [self EXCEPT !.keys = r.ks], dq |-> r.dq,
           key |-> NoKey, raised |-> r.raised]
     ELSE [self |-> [self EXCEPT !.keys = r.ks,
                                 !.indices = permutation(sigma, @)],
           dq |-> r.dq, key |-> r.out, raised |-> "none"]

(* DataLoaderJax._shuffle *)
DataLoaderJax_shuffle(self, dq, sigma) ==
  IF self.shuffle
  THEN LET r == PRNGSequence_next(self.keys, dq)
       IN IF r.raised # "none"
          THEN [self |-> [self EXCEPT !.keys = r.ks], dq |-> r.dq,
                key |-> NoKey, raised |-> r.raised]
          ELSE [self |-> [self EXCEPT !.keys = r.ks,
                                      !.indices = permutation(sigma, @)],
                dq |-> r.dq, key |-> r.out, raised |-> "none"]
  ELSE [self |-> self, dq |-> dq, key |-> NoKey, raised |-> "none"]

(* __init__ taking the key sequence of loader 1 for every loader *)
DataLoaderJax_init_sharedkeys(id, ds, batch_size, shuffle, drop_last, kw, dq, sigma) ==
  LET k == PRNGSequence_init(1, cfg.global_seed, dq)
      self == [state |-> "live",
               data_len |-> ArrayDataset_len(ds),
               batch_size |-> batch_size,
               shuffle |-> shuffle,
               drop_last |-> drop_last,
               keys |-> k.ks,
               indices |-> arange(ArrayDataset_len(ds)),
               pose |-> 0]
      s == IF shuffle
           THEN LET r == PRNGSequence_next(self.keys, k.dq)
                IN [self |-> [self EXCEPT !.keys = r.ks,
                                          !.indices = permutation(sigma, @)],
                    dq |-> r.dq, key |-> r.out, raised |-> r.raised]
           ELSE [self |-> self, dq |-> k.dq, key |-> NoKey, raised |-> "none"]
  IN [self |-> IF s.raised = "none" THEN s.self
               ELSE [Unbuilt EXCEPT !.state = s.raised],
      dq |-> s.dq, key |-> s.key]

(* DataLoaderJax.__init__: **kw is accepted and never read, the seed is    *)
(* get_config().global_seed; an exception of _shuffle leaves no loader     *)
DataLoaderJax_init(id, ds, batch_size, shuffle, drop_last, kw, dq, sigma) ==
  LET k == PRNGSequence_init(id, cfg.global_seed, dq)
      self == [state |-> "live",
               data_len |-> ArrayDataset_len(ds),
               batch_size |-> batch_size,
               shuffle |-> shuffle,
               drop_last |-> drop_last,
               keys |-> k.ks,
               indices |-> arange(ArrayDataset_len(ds)),
               pose |-> 0]
      s == DataLoaderJax_shuffle(self, k.dq, sigma)
  IN [self |-> IF s.raised = "none" THEN s.self
               ELSE [Unbuilt EXCEPT !.state = s.raised],
      dq |-> s.dq, key |-> s.key]

(* _stop_iteration that leaves pose where it is *)
DataLoaderJax_stop_iteration_noreset(self, dq, sigma) ==
  LET s == IF self.shuffle
           THEN LET r == PRNGSequence_next(self.keys, dq)
                IN [self |-> [self EXCEPT !.keys = r.ks,
                                          !.indices = permutation(sigma, @)],
                    dq |-> r.dq, key |-> r.out, raised |-> r.raised]
           ELSE [self |-> self, dq |-> dq, key |-> NoKey, raised |-> "none"]
  IN [self |-> s.self, dq |-> s.dq, key |-> s.key,
      ret |-> [NoBatch EXCEPT !.kind = IF s.raised = "none"
                                       THEN "StopIteration" ELSE s.raised]]

(* _stop_iteration carrying the overshoot of pose into the next epoch *)
DataLoaderJax_stop_iteration_carry(self, dq, sigma) ==
  LET s == DataLoaderJax_shuffle(
             [self EXCEPT !.pose = IF @ > self.data_len
                                   THEN @ - self.data_len ELSE 0],
             dq, sigma)
  IN [self |-> s.self, dq |-> s.dq, key |-> s.key,
      ret |-> [NoBatch EXCEPT !.kind = IF s.raised = "none"
                                       THEN "StopIteration" ELSE s.raised]]

(* DataLoaderJax._stop_iteration *)
DataLoaderJax_stop_iteration(self, dq, sigma) ==
  LET s == DataLoaderJax_shuffle([self EXCEPT !.pose = 0], dq, sigma)
  IN [self |-> s.self, dq |-> s.dq, key |-> s.key,
      ret |-> [NoBatch EXCEPT !.kind = IF s.raised = "none"
                                       THEN "StopIteration" ELSE s.raised]]

(* __len__ rounding up by adding one to the floor *)
DataLoaderJax_len_plus1(self, ds, dq) ==
  IF self.batch_size = 0
  THEN [self |-> self, dq |-> dq, raised |-> "ZeroDivisionError", batches |-> 0]
  ELSE IF self.drop_last
  THEN [self |-> self, dq |-> dq, raised |-> "none",
        batches |-> PyFloorDiv(ArrayDataset_len(ds), self.batch_size)]
  ELSE [self |-> self, dq |-> dq, raised |-> "none",
        batches |-> PyFloorDiv(ArrayDataset_len(ds), self.batch_size) + 1]

(* __len__ that rewinds the loader to the start of the epoch *)
DataLoaderJax_len_rewind(self, ds, dq) ==
  IF self.batch_size = 0
  THEN [self |-> [self EXCEPT !.pose = 0], dq |-> dq,
        raised |-> "ZeroDivisionError", batches |-> 0]
  ELSE IF self.drop_last
  THEN [self |-> [self EXCEPT !.pose = 0], dq |-> dq, raised |-> "none",
        batches |-> PyFloorDiv(ArrayDataset_len(ds), self.batch_size)]
  ELSE [self |-> [self EXCEPT !.pose = 0], dq |-> dq, raised |-> "none",
        batches |-> 0 - PyFloorDiv(ArrayDataset_len(ds), 0 - self.batch_size)]

(* DataLoaderJax.__len__: it assigns no field and draws no key, so the     *)
(* loader and the deques come back as they went in                         *)
DataLoaderJax_len(self, ds, dq) ==
  IF self.batch_size = 0
  THEN [self |-> self, dq |-> dq, raised |-> "ZeroDivisionError", batches |-> 0]
  ELSE IF self.drop_last
  THEN [self |-> self, dq |-> dq, raised |-> "none",
        batches |-> PyFloorDiv(ArrayDataset_len(ds), self.batch_size)]
  ELSE [self |-> self, dq |-> dq, raised |-> "none",
        batches |-> 0 - PyFloorDiv(ArrayDataset_len(ds), 0 - self.batch_size)]

(* __next__ whose tail slice starts one position late *)
DataLoaderJax_next_tailskip(self, ds, dq, sigma) ==
  IF self.pose + self.batch_size <= self.data_len
  THEN LET batch_indices ==
             PySlice(self.indices, self.pose, self.pose + self.batch_size)
           batch_data == ArrayDataset_getitem(ds, batch_indices)
       IN [self |-> [self EXCEPT !.pose = @ + self.batch_size],
           dq |-> dq, key |-> NoKey,
           ret |-> [kind |-> "batch", indices |-> batch_indices,
                    data |-> batch_data]]
  ELSE IF self.pose < self.data_len /\ ~self.drop_last
  THEN LET batch_indices == PySliceFrom(self.indices, self.pose + 1)
           batch_data == ArrayDataset_getitem(ds, batch_indices)
       IN [self |-> [self EXCEPT !.pose = @ + self.batch_size],
           dq |-> dq, key |-> NoKey,
           ret |-> [kind |-> "batch", indices |-> batch_indices,
                    data |-> batch_data]]
  ELSE DataLoaderJax_stop_iteration(self, dq, sigma)

(* __next__ returning the tail batch whatever drop_last says *)
DataLoaderJax_next_keeptail(self, ds, dq, sigma) ==
  IF self.pose + self.batch_size <= self.data_len
  THEN LET batch_indices ==
             PySlice(self.indices, self.pose, self.pose + self.batch_size)
           batch_data == ArrayDataset_getitem(ds, batch_indices)
       IN [self |-> [self EXCEPT !.pose = @ + self.batch_size],
           dq |-> dq, key |-> NoKey,
           ret |-> [kind |-> "batch", indices |-> batch_indices,
                    data |-> batch_data]]
  ELSE IF self.pose < self.data_len
  THEN LET batch_indices == PySliceFrom(self.indices, self.pose)
           batch_data == ArrayDataset_getitem(ds, batch_indices)
       IN [self |-> [self EXCEPT !.pose = @ + self.batch_size],
           dq |-> dq, key |-> NoKey,
           ret |-> [kind |-> "batch", indices |-> batch_indices,
                    data |-> batch_data]]
  ELSE DataLoaderJax_stop_iteration(self, dq, sigma)

(* __next__ whose tail branch does not advance pose *)
DataLoaderJax_next_tailstay(self, ds, dq, sigma) ==
  IF self.pose + self.batch_size <= self.data_len
  THEN LET batch_indices ==
             PySlice(self.indices, self.pose, self.pose + self.batch_size)
           batch_data == ArrayDataset_getitem(ds, batch_indices)
       IN [self |-> [self EXCEPT !.pose = @ + self.batch_size],
           dq |-> dq, key |-> NoKey,
           ret |-> [kind |-> "batch", indices |-> batch_indices,
                    data |-> batch_data]]
  ELSE IF self.pose < self.data_len /\ ~self.drop_last
  THEN LET batch_indices == PySliceFrom(self.indices, self.pose)
           batch_data == ArrayDataset_getitem(ds, batch_indices)
       IN [self |-> [self EXCEPT !.pose = @],
           dq |-> dq, key |-> NoKey,
           ret |-> [kind |-> "batch", indices |-> batch_indices,
                    data |-> batch_data]]
  ELSE DataLoaderJax_stop_iteration(self, dq, sigma)

(* __next__ whose tail branch moves pose to data_len *)
DataLoaderJax_next_tailclamp(self, ds, dq, sigma) ==
  IF self.pose + self.batch_size <= self.data_len
  THEN LET batch_indices ==
             PySlice(self.indices, self.pose, self.pose + self.batch_size)
           batch_data == ArrayDataset_getitem(ds, batch_indices)
       IN [self |-> [self EXCEPT !.pose = @ + self.batch_size],
           dq |-> dq, key |-> NoKey,
           ret |-> [kind |-> "batch", indices |-> batch_indices,
                    data |-> batch_data]]
  ELSE IF self.pose < self.data_len /\ ~self.drop_last
  THEN LET batch_indices == PySliceFrom(self.indices, self.pose)
           batch_data == ArrayDataset_getitem(ds, batch_indices)
       IN [self |-> [self EXCEPT !.pose = self.data_len],
           dq |-> dq, key |-> NoKey,
           ret |-> [kind |-> "batch", indices |-> batch_indices,
                    data |-> batch_data]]
  ELSE DataLoaderJax_stop_iteration(self, dq, sigma)

(* __next__ whose tail branch is also taken with pose = data_len *)
DataLoaderJax_next_emptytail(self, ds, dq, sigma) ==
  IF self.pose + self.batch_size <= self.data_len
  THEN LET batch_indices ==
             PySlice(self.indices, self.pose, self.pose + self.batch_size)
           batch_data == ArrayDataset_getitem(ds, batch_indices)
       IN [self |-> [self EXCEPT !.pose = @ + self.batch_size],
           dq |-> dq, key |-> NoKey,
           ret |-> [kind |-> "batch", indices |-> batch_indices,
                    data |-> batch_data]]
  ELSE IF self.pose <= self.data_len /\ ~self.drop_last
  THEN LET batch_indices == PySliceFrom(self.indices, self.pose)
           batch_data == ArrayDataset_getitem(ds, batch_indices)
       IN [self |-> [self EXCEPT !.pose = @ + self.batch_size],
           dq |-> dq, key |-> NoKey,
           ret |-> [kind |-> "batch", indices |-> batch_indices,
                    data |-> batch_data]]
  ELSE DataLoaderJax_stop_iteration(self, dq, sigma)

(* DataLoaderJax.__next__ *)
DataLoaderJax_next(self, ds, dq, sigma) ==
  IF self.pose + self.batch_size <= self.data_len
  THEN LET batch_indices ==
             PySlice(self.indices, self.pose, self.pose + self.batch_size)
           batch_data == ArrayDataset_getitem(ds, batch_indices)
       IN [self |-> [self EXCEPT !.pose = @ + self.batch_size],
           dq |-> dq, key |-> NoKey,
           ret |-> [kind |-> "batch", indices |-> batch_indices,
                    data |-> batch_data]]
  ELSE IF self.pose < self.data_len /\ ~self.drop_last
  THEN LET batch_indices == PySliceFrom(self.indices, self.pose)
           batch_data == ArrayDataset_getitem(ds, batch_indices)
       IN [self |-> [self EXCEPT !.pose = @ + self.batch_size],
           dq |-> dq, key |-> NoKey,
           ret |-> [kind |-> "batch", indices |-> batch_indices,
                    data |-> batch_data]]
  ELSE DataLoaderJax_stop_iteration(self, dq, sigma)

(* __iter__ that starts a new epoch: pose back to 0 and a reshuffle *)
DataLoaderJax_iter_restart(self, dq) ==
  LET s == DataLoaderJax_shuffle([self EXCEPT !.pose = 0], dq,
                                 [i \in 1..Len(self.indices) |->
                                    Len(self.indices) + 1 - i])
  IN [self |-> s.self, dq |-> s.dq]

(* DataLoaderJax.__iter__ (and DataLoader.__iter__, which hands the call   *)
(* on): return self                                                        *)
DataLoaderJax_iter(self, dq) == [self |-> self, dq |-> dq]

(* ------------------------- state and actions -------------------------- *)
Configs == [rng_reserve_size : ReserveSizes, global_seed : Seeds]

N == ArrayDataset_len(dataset)
Identity == [i \in 1..N |-> i]

(* the permutations a draw may stand for: free when a key is drawn, and    *)
(* the one already chosen when the same key was drawn in this step         *)
Sigmas(key) == IF key = NoKey THEN {Identity} ELSE Perms(N)
SigmasAfter(key, key1, sigma1) == IF key = key1 THEN {sigma1} ELSE Perms(N)

NoLast == [done |-> FALSE, perm |-> <<>>, batches |-> <<>>]

NoSeq == [seed |-> 0, ks |-> [key |-> NoKey, subkeys |-> 0]]

(* the keyword arguments a caller may add: none, or seed=... *)
NoKwargs == [has_seed |-> FALSE, seed |-> 0]
Kwargs == {NoKwargs} \cup {[has_seed |-> TRUE, seed |-> s] : s \in Seeds}

(* the buffers a caller hands to ArrayDataset: feats and labels of         *)
(* test_dataloader, of n1 and n2 rows                                      *)
Buffers(n1, n2) == <<TestArrays(n1)[1], TestArrays(n2)[2]>>

NoEnv == [torch |-> FALSE, hf |-> FALSE]
NoDispatch == [op |-> "none", kind |-> "none", backend |-> "none",
               raised |-> "none", dl_cls |-> "None", dataset |-> "none",
               dataloader |-> "none"]

(* a process with the configuration set and a dataset built, no loader yet *)
Init ==
  /\ cfg \in Configs
  /\ \E n1 \in 0..MaxN, n2 \in 0..MaxN : buffers = Buffers(n1, n2)
  /\ dataset = ArrayDataset_init(buffers)
  /\ kwargs = NoKwargs
  /\ drawn = <<>>
  /\ env = NoEnv
  /\ disp = NoDispatch
  /\ ld = [l \in Ids |-> Unbuilt]
  /\ deques = [d \in Ids |-> <<>>]
  /\ ret = [l \in Ids |-> NoBatch]
  /\ cur = <<>>
  /\ last = NoLast
  /\ epochs = 0
  /\ steps = 0
  /\ lenRet = [l \in Ids |-> [raised |-> "none", batches |-> 0 - 1]]
  /\ seqs = [s \in Ids |-> NoSeq]
  /\ outs = [s \in Ids |-> <<>>]
  /\ ncalls = 0
  /\ op = "none"

(* DataLoaderJax(dataset, batch_size, shuffle, drop_last, **kwargs),       *)
(* called twice with the same arguments; drawn records the keys loader 1   *)
(* draws                                                                   *)
Construct ==
  /\ dataset.state = "ok"
  /\ \A l \in Ids : ld[l].state = "none"
  /\ \E batch_size \in BatchSizes, shuffle \in BOOLEAN, drop_last \in BOOLEAN :
       LET new(id, dq, sigma) ==
             DataLoaderJax_init(id, dataset, batch_size, shuffle, drop_last,
                                kwargs, dq, sigma)
           key1 == new(1, deques, Identity).key
       IN \E sigma1 \in Sigmas(key1) :
            LET c1 == new(1, deques, sigma1)
                key2 == new(2, c1.dq, Identity).key
            IN \E sigma2 \in SigmasAfter(key2, key1, sigma1) :
                 LET c2 == new(2, c1.dq, sigma2)
                 IN /\ ld' = [l \in Ids |-> IF l = 1 THEN c1.self ELSE c2.self]
                    /\ deques' = c2.dq
                    /\ drawn' = IF c1.key = NoKey THEN <<>> ELSE <<c1.key>>
  /\ op' = "init"
  /\ UNCHANGED <<cfg, dataset, ret, cur, last, epochs, steps, lenRet,
                 seqs, outs, ncalls, buffers, kwargs, env, disp>>

(* next(loader) on both loaders; cur, last, epochs and steps record what   *)
(* loader 1 returned                                                       *)
Next_ ==
  /\ \A l \in Ids : ld[l].state = "live"
  /\ epochs < MaxEpochs
  /\ steps < MaxSteps
  /\ LET key1 == DataLoaderJax_next(ld[1], dataset, deques, Identity).key
     IN \E sigma1 \in Sigmas(key1) :
          LET r1 == DataLoaderJax_next(ld[1], dataset, deques, sigma1)
              key2 == DataLoaderJax_next(ld[2], dataset, r1.dq, Identity).key
          IN \E sigma2 \in SigmasAfter(key2, key1, sigma1) :
               LET r2 == DataLoaderJax_next(ld[2], dataset, r1.dq, sigma2)
               IN /\ ld' = [l \in Ids |-> IF l = 1 THEN r1.self ELSE r2.self]
                  /\ deques' = r2.dq
                  /\ ret' = [l \in Ids |-> IF l = 1 THEN r1.ret ELSE r2.ret]
                  /\ drawn' = IF r1.key = NoKey THEN drawn
                                                ELSE Append(drawn, r1.key)
                  /\ IF r1.ret.kind = "batch"
                     THEN /\ cur' = Append(cur, r1.ret)
                          /\ steps' = steps + 1
                          /\ UNCHANGED <<last, epochs>>
                     ELSE /\ cur' = <<>>
                          /\ steps' = 0
                          /\ last' = [done |-> TRUE, perm |-> ld[1].indices,
                                      batches |-> cur]
                          /\ epochs' = epochs + 1
  /\ op' = "next"
  /\ UNCHANGED <<cfg, dataset, lenRet, seqs, outs, ncalls, buffers, kwargs,
                 env, disp>>

(* len(loader) on both loaders *)
Len_ ==
  /\ \A l \in Ids : ld[l].state = "live"
  /\ LET r1 == DataLoaderJax_len(ld[1], dataset, deques)
         r2 == DataLoaderJax_len(ld[2], dataset, r1.dq)
     IN /\ ld' = [l \in Ids |-> IF l = 1 THEN r1.self ELSE r2.self]
        /\ deques' = r2.dq
        /\ lenRet' = [l \in Ids |->
                        IF l = 1
                        THEN [raised |-> r1.raised, batches |-> r1.batches]
                        ELSE [raised |-> r2.raised, batches |-> r2.batches]]
  /\ op' = "len"
  /\ UNCHANGED <<cfg, dataset, ret, cur, last, epochs, steps,
                 seqs, outs, ncalls, buffers, kwargs, drawn, env, disp>>

(* iter(loader) on both loaders, as a for statement does before it starts  *)
(* calling next                                                            *)
Iter_ ==
  /\ \A l \in Ids : ld[l].state = "live"
  /\ LET r1 == DataLoaderJax_iter(ld[1], deques)
         r2 == DataLoaderJax_iter(ld[2], r1.dq)
     IN /\ ld' = [l \in Ids |-> IF l = 1 THEN r1.self ELSE r2.self]
        /\ deques' = r2.dq
  /\ op' = "iter"
  /\ UNCHANGED <<cfg, dataset, ret, cur, last, epochs, steps, lenRet,
                 seqs, outs, ncalls, buffers, kwargs, drawn, env, disp>>

Next == Construct \/ Next_ \/ Len_ \/ Iter_

Spec == Init /\ [][Next]_vars

(* ------ loaders built with or without a seed keyword argument -------- *)
(* the caller's keyword arguments are drawn from Kwargs; the datasets are  *)
(* those of at most MaxNSeed rows                                          *)
InitSeed ==
  /\ cfg \in Configs
  /\ \E n1 \in 0..MaxNSeed, n2 \in 0..MaxNSeed : buffers = Buffers(n1, n2)
  /\ dataset = ArrayDataset_init(buffers)
  /\ kwargs \in Kwargs
  /\ drawn = <<>>
  /\ env = NoEnv
  /\ disp = NoDispatch
  /\ ld = [l \in Ids |-> Unbuilt]
  /\ deques = [d \in Ids |-> <<>>]
  /\ ret = [l \in Ids |-> NoBatch]
  /\ cur = <<>>
  /\ last = NoLast
  /\ epochs = 0
  /\ steps = 0
  /\ lenRet = [l \in Ids |-> [raised |-> "none", batches |-> 0 - 1]]
  /\ seqs = [s \in Ids |-> NoSeq]
  /\ outs = [s \in Ids |-> <<>>]
  /\ ncalls = 0
  /\ op = "none"

SpecSeed == InitSeed /\ [][Next]_vars

(* ----------------- two PRNGSequences, the same calls ------------------ *)
InitKeys ==
  /\ cfg \in Configs
  /\ buffers = Buffers(0, 0)
  /\ dataset = ArrayDataset_init(buffers)
  /\ kwargs = NoKwargs
  /\ drawn = <<>>
  /\ env = NoEnv
  /\ disp = NoDispatch
  /\ ld = [l \in Ids |-> Unbuilt]
  /\ ret = [l \in Ids |-> NoBatch]
  /\ cur = <<>>
  /\ last = NoLast
  /\ epochs = 0
  /\ steps = 0
  /\ lenRet = [l \in Ids |-> [raised |-> "none", batches |-> 0 - 1]]
  /\ \E seed1 \in Seeds, seed2 \in Seeds :
       LET k1 == PRNGSequence_init(1, seed1, [d \in Ids |-> <<>>])
           k2 == PRNGSequence_init(2, seed2, k1.dq)
       IN /\ seqs = [s \in Ids |-> IF s = 1 THEN [seed |-> seed1, ks |-> k1.ks]
                                              ELSE [seed |-> seed2, ks |-> k2.ks]]
          /\ deques = k2.dq
  /\ outs = [s \in Ids |-> <<>>]
  /\ ncalls = 0
  /\ op = "none"

(* reserve(num) on both sequences *)
KeysReserve ==
  /\ ncalls < MaxCalls
  /\ \E num \in ReserveSizes :
       LET r1 == reserve(seqs[1].ks, deques, num)
           r2 == reserve(seqs[2].ks, r1.dq, num)
       IN /\ seqs' = [s \in Ids |-> [seqs[s] EXCEPT !.ks = IF s = 1 THEN r1.ks
                                                                  ELSE r2.ks]]
          /\ deques' = r2.dq
  /\ ncalls' = ncalls + 1
  /\ UNCHANGED <<cfg, dataset, ld, ret, cur, last, epochs, steps, lenRet, outs,
                 buffers, kwargs, drawn, env, disp, op>>

(* next(sequence) on both sequences *)
KeysNext ==
  /\ ncalls < MaxCalls
  /\ LET r1 == PRNGSequence_next(seqs[1].ks, deques)
         r2 == PRNGSequence_next(seqs[2].ks, r1.dq)
     IN /\ seqs' = [s \in Ids |-> [seqs[s] EXCEPT !.ks = IF s = 1 THEN r1.ks
                                                                ELSE r2.ks]]
        /\ deques' = r2.dq
        /\ outs' = [s \in Ids |->
                      Append(outs[s],
                             IF s = 1 THEN [key |-> r1.out, raised |-> r1.raised]
                                      ELSE [key |-> r2.out, raised |-> r2.raised])]
  /\ ncalls' = ncalls + 1
  /\ UNCHANGED <<cfg, dataset, ld, ret, cur, last, epochs, steps, lenRet,
                 buffers, kwargs, drawn, env, disp, op>>

NextKeys == KeysReserve \/ KeysNext

SpecKeys == InitKeys /\ [][NextKeys]_vars

(* ============================== claims ================================ *)
L1 == ld[1]
Live == L1.state = "live"
B == L1.batch_size
(* what len(loader) returns or raises in the current state *)
LenOf(l) ==
  LET r == DataLoaderJax_len(ld[l], dataset, deques)
  IN [raised |-> r.raised, batches |-> r.batches]
Floor == N \div B
Ceil == (N + B - 1) \div B
Count(v, s) == Cardinality({i \in 1..Len(s) : s[i] = v})
(* the index slices, and the gathered rows of buffer j, of a batch list *)
Slices(bs) == [i \in 1..Len(bs) |-> bs[i].indices]
Rows(bs, j) == [i \in 1..Len(bs) |-> bs[i].data[j]]
Gather(j, idx) == [i \in 1..Len(idx) |-> dataset.arrays[j][idx[i] + 1]]

(* C1: with drop_last=False and a positive batch size, the index slices of *)
(* the batches returned between epoch start and StopIteration, one after   *)
(* the other, are the epoch's permutation (0..N-1 in order without         *)
(* shuffle), and the gathered rows are the dataset's rows in that order.   *)
C1_EpochReconstructsPermutation ==
  (Live /\ B > 0 /\ ~L1.drop_last /\ last.done) =>
     /\ Concat(Slices(last.batches)) = last.perm
     /\ \A j \in 1..Len(dataset.arrays) :
           Concat(Rows(last.batches, j)) = Gather(j, last.perm)
     /\ (~L1.shuffle => Concat(Slices(last.batches)) = arange(N))

C1_Witness ==
  /\ Live /\ B > 1 /\ ~L1.drop_last /\ last.done /\ L1.shuffle
  /\ Len(last.batches) >= 2
  /\ N % B # 0
  /\ last.perm # arange(N)

(* C2: for a positive batch size len() is floor(N/B) with drop_last and    *)
(* ceil(N/B) without, also for N = 0, and every epoch returns exactly      *)
(* len() batches before StopIteration.                                     *)
C2_LenIsBatchCount ==
  (Live /\ B > 0) =>
     /\ LenOf(1) =
          [raised |-> "none", batches |-> IF L1.drop_last THEN Floor ELSE Ceil]
     /\ (lenRet[1].batches >= 0 => lenRet[1] = LenOf(1))
     /\ (last.done => Len(last.batches) = LenOf(1).batches)
     /\ Len(cur) <= LenOf(1).batches

C2_Witness ==
  /\ Live /\ B > 1 /\ ~L1.drop_last /\ N % B # 0 /\ N > B
  /\ epochs = 2 /\ last.done
  /\ lenRet[1].batches = 2

(* C3: with drop_last=True every returned batch has exactly batch_size     *)
(* samples, an epoch returns floor(N/B)*B samples, and without shuffle     *)
(* they are the first floor(N/B)*B samples in the original order.          *)
C3_DropLastFullBatches ==
  (Live /\ B > 0 /\ L1.drop_last) =>
     /\ \A i \in 1..Len(cur) : Len(cur[i].indices) = B
     /\ (ret[1].kind = "batch" => Len(ret[1].indices) = B)
     /\ (last.done =>
           /\ \A i \in 1..Len(last.batches) : Len(last.batches[i].indices) = B
           /\ Len(Concat(Slices(last.batches))) = Floor * B
           /\ (~L1.shuffle =>
                 Concat(Slices(last.batches)) = SubSeq(arange(N), 1, Floor * B)))

C3_Witness ==
  /\ Live /\ B > 1 /\ L1.drop_last /\ ~L1.shuffle /\ last.done
  /\ N % B # 0 /\ N > B
  /\ Len(last.batches) = 1

(* C4: with shuffle=True and drop_last=False every epoch, the first and    *)
(* the reshuffled ones, gathers each index of 0..N-1 exactly once.         *)
C4_ShuffledEpochVisitsEachOnce ==
  (Live /\ B > 0 /\ L1.shuffle /\ ~L1.drop_last /\ last.done) =>
     /\ Len(Concat(Slices(last.batches))) = N
     /\ \A v \in 0..(N - 1) : Count(v, Concat(Slices(last.batches))) = 1

C4_Witness ==
  /\ Live /\ L1.shuffle /\ ~L1.drop_last /\ last.done /\ epochs = 2
  /\ N >= 3 /\ B = 2
  /\ last.perm # arange(N)
  /\ L1.indices # last.perm

IsPermutation(p) ==
  /\ Len(p) = N
  /\ \A v \in 0..(N - 1) : Count(v, p) = 1

(* C5: StopIteration resets pose to 0 and recomputes the permutation, and  *)
(* the calls that follow produce a complete epoch again (len() batches     *)
(* covering the dataset as drop_last prescribes), epoch after epoch.       *)
C5_Restartable ==
  (Live /\ epochs >= 1) =>
     /\ (steps = 0 => (L1.pose = 0 /\ cur = <<>>))
     /\ IsPermutation(L1.indices)
     /\ (epochs >= 2 =>
           /\ Len(last.batches) = LenOf(1).batches
           /\ Concat(Slices(last.batches)) =
                SubSeq(last.perm, 1, IF L1.drop_last THEN Floor * B ELSE N))

C5_Witness ==
  /\ Live /\ epochs = 2 /\ steps = 0 /\ L1.shuffle
  /\ ret[1].kind = "StopIteration"
  /\ Len(last.batches) >= 2
  /\ L1.pose = 0

(* C6: without shuffle the permutation is the identity at construction and *)
(* after every StopIteration, and every epoch returns the batches of the   *)
(* epoch before it, in the same order.                                     *)
C6_NoShuffleSameEpochs ==
  [][ (ld[1]'.state = "live" /\ ~ld[1]'.shuffle) =>
        /\ ld[1]'.indices = arange(N)
        /\ ((last.done /\ last' # last) =>
              (last'.batches = last.batches /\ last'.perm = arange(N))) ]_vars

C6_Witness ==
  /\ Live /\ ~L1.shuffle /\ epochs = 2 /\ last.done
  /\ Len(last.batches) >= 2
  /\ L1.indices = arange(N)

(* C7: no loader with a batch size of zero or less exists: construction    *)
(* rejects it, so that neither len() nor next() runs with such a size.     *)
C7_BatchSizePositive ==
  \A l \in Ids :
     (ld[l].state = "live" /\ (ret[l].kind # "none" \/ lenRet[l].batches >= 0
                                \/ lenRet[l].raised # "none"))
        => ld[l].batch_size > 0

(* C8 as stated: for every N and B > N an epoch returns one batch without  *)
(* drop_last and none with it.                                             *)
C8_OneBatchWhenBExceedsN ==
  (Live /\ B > N /\ last.done) =>
     Len(last.batches) = IF L1.drop_last THEN 0 ELSE 1

(* C8 amended: for N >= 1 and B > N an epoch returns exactly one batch,    *)
(* holding all N samples, without drop_last and no batch with it; for      *)
(* N = 0 an epoch returns no batch under either policy.                    *)
C8_OneBatchWhenBExceedsN_Amended ==
  (Live /\ B > N) =>
     /\ Len(cur) <= (IF L1.drop_last \/ N = 0 THEN 0 ELSE 1)
     /\ (last.done =>
           /\ Len(last.batches) = IF L1.drop_last \/ N = 0 THEN 0 ELSE 1
           /\ \A i \in 1..Len(last.batches) :
                 last.batches[i].indices = last.perm)

C8_Witness ==
  /\ Live /\ B > N /\ N >= 2 /\ ~L1.drop_last /\ last.done
  /\ Len(last.batches) = 1
  /\ Len(last.batches[1].indices) = N

(* C9: two PRNGSequences built from the same seed and given the same       *)
(* reserve(n) and next calls return the same keys and hold the same root   *)
(* key and the same queue after every call.                                *)
C9_SameSeedSameKeys ==
  (seqs[1].seed = seqs[2].seed) =>
     /\ outs[1] = outs[2]
     /\ seqs[1].ks.key = seqs[2].ks.key
     /\ deques[seqs[1].ks.subkeys] = deques[seqs[2].ks.subkeys]

C9_Witness ==
  /\ seqs[1].seed = seqs[2].seed
  /\ Len(outs[1]) >= 2
  /\ outs[1][1].raised = "none"
  /\ outs[1][2].key # outs[1][1].key
  /\ Len(seqs[1].ks.key) >= 5
  /\ deques[seqs[2].ks.subkeys] # <<>>

(* C10: two loaders built over the same dataset with the same batch_size,  *)
(* shuffle, drop_last and seed return the same batches in the same order,  *)
(* epoch after epoch; a returned batch is the slice of the epoch's         *)
(* permutation that ends at the cursor.                                    *)
C10_SameArgumentsSameBatches ==
  /\ ld[1].state = ld[2].state
  /\ Live =>
       /\ ret[1] = ret[2]
       /\ ld[1].indices = ld[2].indices
       /\ ld[1].pose = ld[2].pose
       /\ ld[1].keys.key = ld[2].keys.key
       /\ ((ret[1].kind = "batch" /\ B > 0) =>
             ret[1].indices = PySlice(L1.indices, L1.pose - B, L1.pose))

C10_Witness ==
  /\ Live /\ ld[2].state = "live" /\ L1.shuffle /\ epochs >= 1
  /\ steps >= 2
  /\ ret[2].kind = "batch" /\ ret[2].indices # <<>>
  /\ ld[2].indices # arange(N)
  /\ cfg.rng_reserve_size = 2

(* ------------------------- backend dispatch --------------------------- *)
(* env tells which optional libraries were importable (torch_data and      *)
(* hf_datasets are None otherwise).  A dataset is known by its kind:       *)
(* "native" (a Dataset of this package), "torch" (a torch Dataset),        *)
(* "hf" (a huggingface Dataset) or "other".                                *)
Envs == [torch : BOOLEAN, hf : BOOLEAN]
Kinds(e) == {"native", "other"} \cup (IF e.torch THEN {"torch"} ELSE {})
                                \cup (IF e.hf THEN {"hf"} ELSE {})
BackendNames == {"jax", "pytorch", "tensorflow", "merlin", "mxnet", ""}

(* DataloaderBackends.__all__ *)
DataloaderBackends_all ==
  [jax |-> "DataLoaderJax", pytorch |-> "DataLoaderPytorch",
   tensorflow |-> "None", merlin |-> "None"]

(* supported listing every declared backend, implemented or not *)
DataloaderBackends_supported_declared == DOMAIN DataloaderBackends_all
(* DataloaderBackends.supported *)
DataloaderBackends_supported ==
  {b \in DOMAIN DataloaderBackends_all : DataloaderBackends_all[b] # "None"}

(* _dispatch_dataloader(backend) *)
dispatch_dataloader(backend) ==
  IF backend \notin DataloaderBackends_supported
  THEN [raised |-> "ValueError: backend", dl_cls |-> "None"]
  ELSE [raised |-> "none", dl_cls |-> DataloaderBackends_all[backend]]

(* _dispatch_dataset(dataset) *)
dispatch_dataset(kind, e) ==
  IF kind = "native" THEN [raised |-> "none", dataset |-> kind]
  ELSE IF e.torch /\ kind = "torch" THEN [raised |-> "none", dataset |-> kind]
  ELSE IF e.hf /\ kind = "hf"
  THEN [raised |-> "none", dataset |-> "hf.with_format(jax)"]
  ELSE [raised |-> "ValueError: dataset type", dataset |-> "none"]

(* the check of _dispatch_dataset_and_backend looking only at 'jax' *)
dispatch_dataset_and_backend_jaxonly(kind, backend, e) ==
  IF backend = "jax" /\ ~e.torch
  THEN [raised |-> "AttributeError", dataset |-> "none", dl_cls |-> "None"]
  ELSE IF backend = "jax" /\ kind = "torch"
  THEN [raised |-> "ValueError: pytorch dataset", dataset |-> "none",
        dl_cls |-> "None"]
  ELSE LET d == dispatch_dataset(kind, e)
           c == dispatch_dataloader(backend)
       IN IF d.raised # "none"
          THEN [raised |-> d.raised, dataset |-> "none", dl_cls |-> "None"]
          ELSE IF c.raised # "none"
          THEN [raised |-> c.raised, dataset |-> "none", dl_cls |-> "None"]
          ELSE [raised |-> "none", dataset |-> d.dataset, dl_cls |-> c.dl_cls]

(* _dispatch_dataset_and_backend(dataset, backend): with torch_data None   *)
(* the isinstance test reads torch_data.Dataset and raises AttributeError  *)
dispatch_dataset_and_backend(kind, backend, e) ==
  IF backend # "pytorch" /\ ~e.torch
  THEN [raised |-> "AttributeError", dataset |-> "none", dl_cls |-> "None"]
  ELSE IF backend # "pytorch" /\ kind = "torch"
  THEN [raised |-> "ValueError: pytorch dataset", dataset |-> "none",
        dl_cls |-> "None"]
  ELSE LET d == dispatch_dataset(kind, e)
           c == dispatch_dataloader(backend)
       IN IF d.raised # "none"
          THEN [raised |-> d.raised, dataset |-> "none", dl_cls |-> "None"]
          ELSE IF c.raised # "none"
          THEN [raised |-> c.raised, dataset |-> "none", dl_cls |-> "None"]
          ELSE [raised |-> "none", dataset |-> d.dataset, dl_cls |-> c.dl_cls]

(* DataLoader.__init__(dataset, backend, ...): dataloader names the class  *)
(* whose constructor built self.dataloader, "none" when nothing was built  *)
DataLoader_init(kind, backend, e) ==
  LET r == dispatch_dataset_and_backend(kind, backend, e)
  IN IF r.raised # "none"
     THEN [raised |-> r.raised, dataset |-> "none", dl_cls |-> "None",
           dataloader |-> "none"]
     ELSE IF r.dl_cls = "DataLoaderPytorch" /\ ~e.torch
     THEN [raised |-> "ModuleNotFoundError", dataset |-> r.dataset,
           dl_cls |-> r.dl_cls, dataloader |-> "none"]
     ELSE [raised |-> "none", dataset |-> r.dataset, dl_cls |-> r.dl_cls,
           dataloader |-> r.dl_cls]

InitDispatch ==
  /\ cfg = Config_default
  /\ buffers = Buffers(0, 0)
  /\ dataset = ArrayDataset_init(buffers)
  /\ kwargs = NoKwargs
  /\ drawn = <<>>
  /\ env \in Envs
  /\ disp = NoDispatch
  /\ ld = [l \in Ids |-> Unbuilt]
  /\ deques = [d \in Ids |-> <<>>]
  /\ ret = [l \in Ids |-> NoBatch]
  /\ cur = <<>>
  /\ last = NoLast
  /\ epochs = 0
  /\ steps = 0
  /\ lenRet = [l \in Ids |-> [raised |-> "none", batches |-> 0 - 1]]
  /\ seqs = [s \in Ids |-> NoSeq]
  /\ outs = [s \in Ids |-> <<>>]
  /\ ncalls = 0
  /\ op = "none"

DispatchFrame ==
  UNCHANGED <<cfg, dataset, ld, deques, ret, cur, last, epochs, steps, lenRet,
              seqs, outs, buffers, kwargs, drawn, env, op>>

(* a call of _dispatch_dataloader(backend) *)
DispatchDataloader ==
  /\ ncalls < MaxCalls
  /\ \E backend \in BackendNames :
       LET r == dispatch_dataloader(backend)
       IN disp' = [op |-> "_dispatch_dataloader", kind |-> "none",
                   backend |-> backend, raised |-> r.raised,
                   dl_cls |-> r.dl_cls, dataset |-> "none",
                   dataloader |-> "none"]
  /\ ncalls' = ncalls + 1
  /\ DispatchFrame

(* a call of _dispatch_dataset_and_backend(dataset, backend) *)
DispatchDatasetAndBackend ==
  /\ ncalls < MaxCalls
  /\ \E kind \in Kinds(env), backend \in BackendNames :
       LET r == dispatch_dataset_and_backend(kind, backend, env)
       IN disp' = [op |-> "_dispatch_dataset_and_backend", kind |-> kind,
                   backend |-> backend, raised |-> r.raised,
                   dl_cls |-> r.dl_cls, dataset |-> r.dataset,
                   dataloader |-> "none"]
  /\ ncalls' = ncalls + 1
  /\ DispatchFrame

(* a call of DataLoader(dataset, backend, ...) *)
DataLoader_ ==
  /\ ncalls < MaxCalls
  /\ \E kind \in Kinds(env), backend \in BackendNames :
       LET r == DataLoader_init(kind, backend, env)
       IN disp' = [op |-> "DataLoader", kind |-> kind,
                   backend |-> backend, raised |-> r.raised,
                   dl_cls |-> r.dl_cls, dataset |-> r.dataset,
                   dataloader |-> r.dataloader]
  /\ ncalls' = ncalls + 1
  /\ DispatchFrame

NextDispatch == DispatchDataloader \/ DispatchDatasetAndBackend \/ DataLoader_

SpecDispatch == InitDispatch /\ [][NextDispatch]_vars

(* C11: a loader built with seed=s draws its shuffle keys from a           *)
(* PRNGSequence rooted at PRNGKey(s); a loader built without a seed uses   *)
(* the process-wide default seed.                                          *)
C11_SeedArgumentRootsKeys ==
  (Live /\ L1.shuffle) =>
     \A i \in 1..Len(drawn) :
        Head(drawn[i]) = IF kwargs.has_seed THEN kwargs.seed
                                            ELSE cfg.global_seed

(* C12: ArrayDataset construction fails exactly when the buffers do not    *)
(* all have the same first-axis size, and then there is no dataset (and no *)
(* loader over it); otherwise the dataset holds the buffers and its length *)
(* is their common size.                                                   *)
C12_ShapeMismatch ==
  LET same == \A i, j \in 1..Len(buffers) : Len(buffers[i]) = Len(buffers[j])
  IN /\ (dataset.state = "ok") <=> same
     /\ same => (dataset.arrays = buffers
                 /\ ArrayDataset_len(dataset) = Len(buffers[1])
                 /\ \A j \in 1..Len(buffers) :
                       ArrayDataset_len(dataset) = Len(buffers[j]))
     /\ ~same => (dataset.state = "AssertionError" /\ dataset.arrays = <<>>
                  /\ \A l \in Ids : ld[l].state = "none")

C12_Witness ==
  /\ Len(buffers[1]) = 2 /\ Len(buffers[2]) = 3
  /\ dataset.state = "AssertionError"

(* C13: _dispatch_dataloader fails (ValueError, the unknown-backend error) *)
(* for every identifier outside the supported set, those never declared    *)
(* and the declared ones without an implementation ('tensorflow',          *)
(* 'merlin'), and returns the loader class for 'jax' and for 'pytorch'.    *)
C13_UnknownBackend ==
  (disp.op = "_dispatch_dataloader") =>
     /\ (disp.backend = "jax" =>
           (disp.raised = "none" /\ disp.dl_cls = "DataLoaderJax"))
     /\ (disp.backend = "pytorch" =>
           (disp.raised = "none" /\ disp.dl_cls = "DataLoaderPytorch"))
     /\ (disp.backend \notin {"jax", "pytorch"} =>
           (disp.raised = "ValueError: backend" /\ disp.dl_cls = "None"))

C13_Witness ==
  /\ disp.op = "_dispatch_dataloader"
  /\ disp.backend = "tensorflow"
  /\ disp.raised = "ValueError: backend"

(* C14: a torch dataset dispatched with any backend other than 'pytorch'   *)
(* fails with the incompatible-dataset ValueError, and DataLoader builds   *)
(* no loader over it.                                                      *)
C14_IncompatibleDataset ==
  (disp.op \in {"_dispatch_dataset_and_backend", "DataLoader"}
     /\ disp.kind = "torch" /\ disp.backend # "pytorch") =>
     /\ disp.raised = "ValueError: pytorch dataset"
     /\ disp.dl_cls = "None"
     /\ disp.dataloader = "none"

C14_Witness ==
  /\ disp.op = "DataLoader"
  /\ disp.kind = "torch" /\ disp.backend = "merlin"
  /\ disp.raised = "ValueError: pytorch dataset"
  /\ disp.dataloader = "none"

NoDuplicates(s) == \A i, j \in 1..Len(s) : s[i] = s[j] => i = j
Elems(s) == {s[i] : i \in 1..Len(s)}
NextRet == DataLoaderJax_next(L1, dataset, deques, Identity).ret

(* C15: with a positive batch size an epoch is never infinite: a loader    *)
(* has returned at most ceil(N/B) batches since the epoch began, every     *)
(* returned batch moves pose forward by B, and once ceil(N/B) batches      *)
(* were returned the next call raises StopIteration.                       *)
C15_EpochTerminates ==
  (Live /\ B > 0) =>
     /\ Len(cur) <= Ceil
     /\ L1.pose = Len(cur) * B
     /\ (NextRet.kind = "batch" => Len(cur) < Ceil)
     /\ (Len(cur) = Ceil => NextRet.kind = "StopIteration")

C15_Witness ==
  /\ Live /\ B = 2 /\ N = 3 /\ ~L1.drop_last
  /\ Len(cur) = 2
  /\ NextRet.kind = "StopIteration"

(* C16: in every state of a built loader (after construction, after each   *)
(* next, after each reshuffle at StopIteration) indices has length N and   *)
(* holds each of 0..N-1 exactly once.                                      *)
C16_PermutationIsBijection ==
  \A l \in Ids : ld[l].state = "live" => IsPermutation(ld[l].indices)

C16_Witness ==
  /\ Live /\ L1.shuffle /\ N = 3
  /\ epochs = 2
  /\ L1.indices # arange(N)
  /\ last.perm # arange(N)
  /\ last.perm # L1.indices

(* C17 as stated: with a positive batch size, 0 <= pose <= N in every      *)
(* state of a built loader.                                                *)
C17_CursorWithinDataset ==
  (Live /\ B > 0) => (0 <= L1.pose /\ L1.pose <= N)

(* C17 amended: pose is batch_size times the number of batches returned    *)
(* since the epoch began; with a positive batch size 0 <= pose < N + B,    *)
(* and pose exceeds N exactly when the last call returned a partial tail   *)
(* batch.                                                                  *)
C17_CursorWithinDataset_Amended ==
  Live =>
     /\ L1.pose = Len(cur) * B
     /\ (B > 0 =>
           /\ 0 <= L1.pose
           /\ L1.pose < N + B
           /\ (L1.pose > N <=>
                 (cur # <<>> /\ Len(cur[Len(cur)].indices) < B)))

C17_Witness ==
  /\ Live /\ B = 2 /\ N = 3
  /\ L1.pose = 4
  /\ Len(cur) = 2 /\ Len(cur[2].indices) = 1

C19_DropLastLeavesOnlyTail ==
  (Live /\ B > 0 /\ L1.drop_last) =>
     /\ NoDuplicates(Concat(Slices(cur)))
     /\ last.done =>
           LET gathered == Concat(Slices(last.batches))
               leftout == Elems(last.perm) \ Elems(gathered)
           IN /\ NoDuplicates(gathered)
              /\ leftout = {last.perm[i] : i \in (N - (N % B) + 1)..N}
              /\ Cardinality(leftout) = N % B
              /\ Cardinality(leftout) < B

C19_Witness ==
  /\ Live /\ B = 2 /\ N = 3 /\ L1.drop_last /\ L1.shuffle
  /\ last.done
  /\ Len(last.batches) = 1
  /\ Elems(last.perm) \ Elems(Concat(Slices(last.batches))) = {last.perm[3]}
  /\ last.perm[3] # 2

(* C20: after a call returned a partial tail batch (fewer than batch_size  *)
(* indices) the next call raises StopIteration and leaves pose at 0, and   *)
(* the batches of the epoch that follows a partial tail are, one after the *)
(* other, the leading entries of the new permutation: none skipped, none   *)
(* repeated.                                                               *)
C20_TailThenStop ==
  /\ [][(/\ Live /\ B > 0
          /\ ret[1].kind = "batch" /\ Len(ret[1].indices) < B
          /\ (steps' # steps \/ epochs' # epochs))
         => (/\ ret'[1].kind = "StopIteration"
             /\ ld'[1].pose = 0
             /\ cur' = <<>>
             /\ epochs' = epochs + 1)]_vars
  /\ []((/\ Live /\ B > 0 /\ last.done
          /\ last.batches # <<>>
          /\ Len(last.batches[Len(last.batches)].indices) < B)
         => (/\ Concat(Slices(cur)) = PySlice(L1.indices, 0, L1.pose)
             /\ NoDuplicates(Concat(Slices(cur)))
             /\ (cur = <<>> => L1.pose = 0)))

C20_Witness ==
  /\ Live /\ B = 2 /\ N = 3 /\ L1.shuffle
  /\ last.done /\ Len(last.batches) = 2
  /\ Len(last.batches[2].indices) = 1
  /\ Len(cur) = 2 /\ L1.pose = 4
  /\ Concat(Slices(cur)) = L1.indices

(* one sequence of SpecKeys: its root key, its queue, the results of its   *)
(* next calls, and whether the step under way is a next call               *)
RootKey(s) == seqs[s].ks.key
Queue(s) == deques[seqs[s].ks.subkeys]
Emitted(s) == {outs[s][i].key : i \in {j \in 1..Len(outs[s]) : outs[s][j].raised = "none"}}
IsNextCall(s) == Len(outs'[s]) = Len(outs[s]) + 1
LastOut(s) == outs'[s][Len(outs'[s])]
Refill(s) == split(RootKey(s), cfg.rng_reserve_size + 1)

(* next on a non-empty queue: the head is returned, the rest stays in      *)
(* order, the root key is unchanged                                        *)
NextFromQueue(s) ==
  (IsNextCall(s) /\ Queue(s) # <<>>) =>
     /\ LastOut(s) = [key |-> Head(Queue(s)), raised |-> "none"]
     /\ Queue(s)' = Tail(Queue(s))
     /\ RootKey(s)' = RootKey(s)

(* next on an empty queue: the root is split into reserve_size + 1 keys,   *)
(* the first is the new root, the others are enqueued in order and the     *)
(* head of the queue is returned                                           *)
NextRefills(s) ==
  /\ RootKey(s)' = Refill(s)[1]
  /\ LastOut(s).raised = "none"
  /\ LastOut(s).key = Refill(s)[2]
  /\ Queue(s)' = SubSeq(Refill(s), 3, cfg.rng_reserve_size + 1)

C22_KeysUsedOnce ==
  \A s \in Ids :
     /\ \A i, j \in 1..Len(outs[s]) :
           (outs[s][i].raised = "none" /\ outs[s][j].raised = "none"
              /\ outs[s][i].key = outs[s][j].key) => i = j
     /\ RootKey(s) \notin Emitted(s)
     /\ \A i \in 1..Len(Queue(s)) :
           /\ Queue(s)[i] # RootKey(s)
           /\ Queue(s)[i] \notin Emitted(s)
           /\ \A j \in 1..Len(Queue(s)) : Queue(s)[i] = Queue(s)[j] => i = j

C22_Witness ==
  /\ Len(outs[1]) = 3
  /\ \A i \in 1..3 : outs[1][i].raised = "none"
  /\ ncalls = 4
  /\ Len(RootKey(1)) = 5
  /\ Len(outs[1][1].key) = 3 /\ Len(outs[1][3].key) = 5

(* C23: with rng_reserve_size = 0 every next call returns a key and none   *)
(* raises.                                                                 *)
C23_ZeroReserveStillRefills ==
  (cfg.rng_reserve_size = 0) =>
     \A s \in Ids : \A i \in 1..Len(outs[s]) :
        outs[s][i].raised = "none" /\ outs[s][i].key # NoKey

(* the batches loader 1 returned in the current epoch and in the last      *)
(* finished one                                                            *)
Returned == {cur[i] : i \in 1..Len(cur)}
              \cup {last.batches[i] : i \in 1..Len(last.batches)}

(* C24: a len() call changes no loader (pose, indices, key sequence,       *)
(* batch_size, shuffle, drop_last), no deque of subkeys and no dataset,    *)
(* in whatever state it is made, and returns what __len__ computes there.  *)
C24_LenLeavesStateUnchanged ==
  [][(op' = "len" /\ Live) =>
       /\ ld' = ld
       /\ deques' = deques
       /\ dataset' = dataset
       /\ \A l \in Ids : lenRet'[l] = LenOf(l)]_vars

C24_Witness ==
  /\ op = "len" /\ Live /\ L1.shuffle /\ N = 3 /\ B = 1
  /\ L1.pose = 2 /\ Len(cur) = 2
  /\ L1.indices # arange(N)
  /\ deques[L1.keys.subkeys] # <<>>
  /\ lenRet[1] = [raised |-> "none", batches |-> 3]

(* C25: every returned batch has one component per buffer, whose position  *)
(* i is that buffer's row at the i-th index of the batch; so at every      *)
(* batch position features and labels are those of one sample.             *)
C25_BatchColumnsAligned ==
  Live =>
    \A b \in Returned \cup {ret[l] : l \in Ids} :
       (b.kind = "batch") =>
          /\ Len(b.data) = Len(buffers)
          /\ \A j \in 1..Len(buffers) :
                /\ Len(b.data[j]) = Len(b.indices)
                /\ \A i \in 1..Len(b.indices) :
                      b.data[j][i] = buffers[j][b.indices[i] + 1]
          /\ \A i \in 1..Len(b.indices) :
                /\ b.data[1][i][1] = b.data[2][i][1]
                /\ b.data[2][i][1] = b.indices[i]

C25_Witness ==
  /\ Live /\ L1.shuffle /\ N = 3 /\ B = 3
  /\ ret[1].kind = "batch"
  /\ ret[1].indices = <<2, 0, 1>>
  /\ ret[1].data[1] = << <<2, 2>>, <<0, 0>>, <<1, 1>> >>
  /\ ret[1].data[2] = << <<2>>, <<0>>, <<1>> >>

(* C26: with a positive batch size every batch a loader returned was       *)
(* gathered from at least one and at most batch_size indices, each within  *)
(* 0..N-1, and has one row per index.                                      *)
C26_IndicesInRange ==
  (Live /\ B > 0) =>
    \A b \in Returned \cup {ret[l] : l \in Ids} :
       (b.kind = "batch") =>
          /\ Len(b.indices) >= 1
          /\ Len(b.indices) <= B
          /\ \A i \in 1..Len(b.indices) : b.indices[i] \in 0..(N - 1)
          /\ \A j \in 1..Len(b.data) : Len(b.data[j]) = Len(b.indices)

C26_Witness ==
  /\ Live /\ B = 2 /\ N = 3 /\ ~L1.drop_last
  /\ L1.pose = 4
  /\ ret[1].kind = "batch" /\ Len(ret[1].indices) = 1
  /\ ret[1].indices[1] \in 0..2

IterChangesNothing ==
  (op' = "iter" /\ Live) =>
     (ld' = ld /\ deques' = deques /\ cur' = cur /\ epochs' = epochs)

NewEpochOnlyByStopIteration ==
  (Live /\ (\/ (ld'[1].pose = 0 /\ L1.pose # 0)
            \/ ld'[1].indices # L1.indices
            \/ ld'[1].keys # L1.keys
            \/ deques' # deques
            \/ epochs' # epochs)) =>
     (op' = "next" /\ ret'[1].kind = "StopIteration")

(* C27: an iter() call changes no loader and no deque of subkeys; pose     *)
(* goes back to 0, indices change and a key is drawn only in a next call   *)
(* that raises StopIteration; and the next call after an iter() made       *)
(* mid-epoch returns the entries of indices that follow those already      *)
(* returned in this epoch.                                                 *)
C27_IterLeavesStateUnchanged ==
  /\ [][IterChangesNothing /\ NewEpochOnlyByStopIteration]_vars
  /\ []((op = "iter" /\ Live /\ B > 0 /\ NextRet.kind = "batch") =>
          LET done == Len(Concat(Slices(cur)))
          IN NextRet.indices = PySlice(L1.indices, done, done + B))

C27_Witness ==
  /\ op = "iter" /\ Live /\ L1.shuffle /\ N = 3 /\ B = 1
  /\ Len(cur) = 1 /\ L1.pose = 1 /\ epochs = 1
  /\ NextRet.kind = "batch"
  /\ NextRet.indices = <<L1.indices[2]>>

(* C28: without torch, a native Dataset dispatched with backend 'jax'      *)
(* comes back unchanged with the DataLoaderJax class, and in no            *)
(* configuration of the optional libraries does the check for a torch      *)
(* dataset raise an error of its own.                                      *)
C28_DispatchWithoutTorch ==
  (disp.op \in {"_dispatch_dataset_and_backend", "DataLoader"}) =>
     /\ disp.raised # "AttributeError"
     /\ (~env.torch /\ disp.kind = "native" /\ disp.backend = "jax") =>
           (/\ disp.raised = "none"
            /\ disp.dl_cls = "DataLoaderJax"
            /\ disp.dataset = "native")

====
